---- MODULE Spec2Model ----
(***************************************************************************)
(* Model of bin/yoke.js: the command-lifecycle orchestrator of the yoke    *)
(* command-line client.  One invocation of the process is modelled: the    *)
(* parsed command line, the two asynchronous init tasks run under          *)
(* async.parallel, the merge of their results into `program`, the dispatch *)
(* to the command implementation, its completion callback, and the exit    *)
(* of the process.                                                         *)
(*                                                                         *)
(* JavaScript values are coded as strings.  Undef codes `undefined`, True  *)
(* and False code the booleans; objects are functions from the keys that   *)
(* are present to their values (a TLA+ record is such a function).         *)
(* Every action is one run-to-completion callback of the event loop.       *)
(***************************************************************************)
EXTENDS Integers, Sequences, FiniteSets, TLC

VARIABLES
    cmd,           \* the command name given on the command line
    program,       \* the commander object, which is the Context
    pc,            \* where the process is: start, init, invoking, keptAlive, exited
    credTask,      \* loadCredentials: none, exists (fs.exists pending), done
    cfgTask,       \* loadAerobaticNpmConfig: none, exists, readFile, done
    credFile,      \* the ~/.aerobatic file as loadCredentials found it
    manifest,      \* ./package.json as loadAerobaticNpmConfig found it
    results,       \* async.parallel's results object, keys in insertion order
    completed,     \* async.parallel's count of tasks that succeeded
    handlerCalls,  \* how often the callback given to async.parallel has run
    handlerErr,    \* the err that callback was given
    cmdCalls,      \* how often the command implementation was invoked
    cmdResult,     \* what the implementation passed to its completion callback
    errorLines,    \* lines written with log.error
    infoLines,     \* lines written with log.info
    env,           \* process.env: YOKE_DEBUG and AEROBATIC_ENV
    envWrites,     \* how often setProgramDefaults ran
    exitHandlers,  \* listeners of process 'exit', in registration order
    cleanupCalls,  \* how often onKill was invoked
    initTasks,     \* the keys of the initTasks object given to async.parallel
    joined,        \* async.parallel has dropped its callback after an err
    exitVia,       \* what ended the process
    exitCode       \* the exit status once exited

vars == <<cmd, program, pc, credTask, cfgTask, credFile, manifest, results,
          completed, handlerCalls, handlerErr, cmdCalls, cmdResult, errorLines,
          infoLines, env, envWrites, exitHandlers, cleanupCalls, initTasks,
          joined, exitVia, exitCode>>

----------------------------------------------------------------------------
(* JavaScript values *)

Undef == "undefined"
True == "true"
False == "false"

\* `if (v)` on the values of this model
Truthy(v) == v \notin {Undef, "", False}

\* _.isEmpty on a string or undefined
isEmpty(v) == v \in {Undef, ""}

EmptyObj == [k \in {} |-> Undef]

\* o[k] of JavaScript: undefined when the key is absent
Get(o, k) == IF k \in DOMAIN o THEN o[k] ELSE Undef

\* _.extend(dst, src): every own key of src is assigned to dst
Extend(dst, src) ==
    [k \in (DOMAIN dst) \cup (DOMAIN src) |->
        IF k \in DOMAIN src THEN src[k] ELSE dst[k]]

\* _.defaults(obj, defs): keys of defs fill in where obj has none
Defaults(obj, defs) ==
    [k \in (DOMAIN obj) \cup (DOMAIN defs) |->
        IF k \in DOMAIN obj /\ obj[k] # Undef THEN obj[k] ELSE defs[k]]

\* a JSON object with the keys of r whose value is present
Obj(r) == [k \in {j \in DOMAIN r : r[j] # Undef} |-> r[k]]

----------------------------------------------------------------------------
(* Failure values, by shape *)

NoErr == [shape |-> "null", text |-> "", stack |-> ""]
Str(msg) == [shape |-> "string", text |-> msg, stack |-> ""]
Err(msg, stack) == [shape |-> "Error", text |-> msg, stack |-> stack]
PlainObject == [shape |-> "object", text |-> "", stack |-> ""]
Number == [shape |-> "number", text |-> "42", stack |-> ""]

\* `if (err)`: null and undefined are falsy, every failure value here is not
IsErr(err) == err.shape # "null"

\* Error.prototype.toString
toString(err) == "Error: " \o err.text

----------------------------------------------------------------------------
(* The command line *)

CommandNames == {"login", "create-app", "bind-app", "serve", "sim", "deploy"}

\* a name that matches no declared command and is taken by command('*')
Unrecognized == "bogus"

\* the options object each program.command(...).action(commandAction(..)) passes
CommandOptions(c) ==
    CASE c = "login" -> [requireCredentials |-> False, loadNpmConfig |-> False]
      [] c = "create-app" -> [loadNpmConfig |-> False]
      [] c = "bind-app" -> [loadNpmConfig |-> False]
      [] c = "sim" -> [simulator |-> True]
      [] OTHER -> EmptyObj

\* the module under ../commands/ each command requires
CommandModule(c) ==
    CASE c = "login" -> "login"
      [] c = "create-app" -> "appCreate"
      [] c = "bind-app" -> "appBind"
      [] c = "deploy" -> "deploy"
      [] OTHER -> "serve"

\* the values the global flags take on a command line
FlagValues ==
    [debug : {Undef, True}, dev : {Undef, True},
     userId : {Undef, "flagUser"}, secretKey : {Undef, "flagKey"},
     appId : {Undef, "Y"}]

\* program after program.parse has stored the flags that were given
ParsedProgram(flags) == Obj(flags)

----------------------------------------------------------------------------
(* The files *)

\* ~/.aerobatic: absent, not JSON, the JSON value null, or a JSON object
CredFiles ==
    {[kind |-> k, json |-> EmptyObj] : k \in {"absent", "unparseable", "null"}}
    \cup {[kind |-> "object", json |-> Obj(r)] :
            r \in [userId : {Undef, "", "fileUser"},
                   secretKey : {Undef, "", "fileKey"}]}

\* the _aerobatic section of package.json when it is there: its appId, a
\* userId key that shadows a credential, stale appVersion and npmScripts
Sections ==
    {Obj(r) : r \in [appId : {Undef, "", "X"},
                     userId : {Undef, "", "sectionUser"}]}
    \cup {Extend(Obj(r), [appVersion |-> "0.0.1", npmScripts |-> "{stale}"]) :
            r \in [appId : {Undef, "", "X"}, userId : {Undef}]}

\* ./package.json once fs.exists has said it is there: fs.readFile fails, or
\* it is not JSON, or the JSON value null, or a JSON object
ManifestContents ==
    {[kind |-> k, hasSection |-> FALSE, section |-> EmptyObj,
      version |-> Undef, scripts |-> Undef] :
        k \in {"readError", "unparseable", "null"}}
    \cup {[kind |-> "object", hasSection |-> FALSE, section |-> EmptyObj,
           version |-> v, scripts |-> Undef] : v \in {Undef, "1.0.0"}}
    \cup {[kind |-> "object", hasSection |-> TRUE, section |-> s,
           version |-> v, scripts |-> sc] :
            s \in Sections, v \in {Undef, "1.0.0"}, sc \in {Undef, "{test}"}}

Unread == [kind |-> "unread", hasSection |-> FALSE, section |-> EmptyObj,
           version |-> Undef, scripts |-> Undef]
Present == [Unread EXCEPT !.kind = "present"]
Absent == [Unread EXCEPT !.kind = "absent"]

----------------------------------------------------------------------------
(* The resolvers.  An outcome is what the resolver does with its callback: *)
(* callback(err), callback(null, value), or an exception thrown before it. *)

Fail(err) == [tag |-> "err", err |-> err, value |-> EmptyObj]
Ok(value) == [tag |-> "ok", err |-> NoErr, value |-> value]
Throw == [tag |-> "throw", err |-> Err("TypeError", "TypeError: Cannot read property"),
          value |-> EmptyObj]

NoCredentialsFile == "No .aerobatic file exists. First run 'yoke login'"
CredentialsNotJson == "Could not parse .aerobatic file JSON. Try re-running 'yoke login'"
CredentialsIncomplete == "Missing information in .aerobatic file. Try re-running 'yoke login'"

\* the body of the fs.exists callback of loadCredentials
loadCredentials(f) ==
    IF f.kind = "absent" THEN Fail(Str(NoCredentialsFile))
    ELSE IF f.kind = "unparseable" THEN Fail(Str(CredentialsNotJson))
    ELSE IF f.kind = "null" THEN Throw
    ELSE IF isEmpty(Get(f.json, "userId")) \/ isEmpty(Get(f.json, "secretKey"))
         THEN Fail(Str(CredentialsIncomplete))
    ELSE Ok(f.json)

NoManifest == "File package.json does not exist. Run 'npm init' to create it."
ManifestNotJson == "File package.json is not valid JSON"
NoSection == "Missing _aerobatic section in package.json file. Try re-running the command 'yoke app:bind'."
NoAppId == "Missing appId in _aerobatic section of package.json. Try re-running the command 'yoke bind-app'."
ReadError == Err("EACCES", "Error: EACCES, open 'package.json'")

\* OverlayAppId with the precedence reversed: the flag is used only when
\* the section has no appId.  C10_AppIdFlagWins fails with it.
OverlayAppId_ManifestWins(p, aerobaticConfig) ==
    IF Truthy(Get(p, "appId")) /\ ~Truthy(Get(aerobaticConfig, "appId"))
    THEN Extend(aerobaticConfig, [appId |-> Get(p, "appId")])
    ELSE aerobaticConfig

\* the appId overlay of loadAerobaticNpmConfig
OverlayAppId(p, aerobaticConfig) ==
    IF Truthy(Get(p, "appId"))
    THEN Extend(aerobaticConfig, [appId |-> Get(p, "appId")])
    ELSE aerobaticConfig

\* CopyNpmAttributes with _.defaults for _.extend: values the section
\* already has are kept.  C17_NpmAttributesOverwrite fails with it.
CopyNpmAttributes_KeepStale(m, aerobaticConfig) ==
    Defaults(aerobaticConfig,
             [appVersion |-> m.version,
              npmScripts |-> IF Truthy(m.scripts) THEN m.scripts ELSE "{}"])

\* the copy of the npm standard attributes into the _aerobatic section
CopyNpmAttributes(m, aerobaticConfig) ==
    Extend(aerobaticConfig,
           [appVersion |-> m.version,
            npmScripts |-> IF Truthy(m.scripts) THEN m.scripts ELSE "{}"])

\* the body of the fs.readFile callback of loadAerobaticNpmConfig
loadAerobaticNpmConfig(p, m) ==
    IF m.kind = "readError" THEN Fail(ReadError)
    ELSE IF m.kind = "unparseable" THEN Fail(Str(ManifestNotJson))
    ELSE IF m.kind = "null" THEN Throw
    ELSE IF ~m.hasSection THEN Fail(Str(NoSection))
    ELSE IF ~Truthy(Get(p, "appId")) /\ ~Truthy(Get(m.section, "appId"))
         THEN Fail(Str(NoAppId))
    ELSE Ok(CopyNpmAttributes(m, OverlayAppId(p, m.section)))

----------------------------------------------------------------------------
(* commandAction: what it computes *)

\* the defaults commandAction gives the options of a command
OptionDefaults == [requireCredentials |-> True, loadNpmConfig |-> True]

\* program once commandAction has extended it with the command's options
WithOptions(p, c) == Extend(p, Defaults(CommandOptions(c), OptionDefaults))

\* InitTasks with || for && in the test of the two flags: one flag alone
\* skips the credentials task.  C8_InitTaskSet fails with it.
InitTasks_EitherFlag(p) ==
    (IF Get(p, "requireCredentials") = True
        /\ ~(Truthy(Get(p, "userId")) \/ Truthy(Get(p, "secretKey")))
     THEN {"credentials"} ELSE {})
    \cup (IF Truthy(Get(p, "loadNpmConfig")) THEN {"config"} ELSE {})

\* the keys commandAction puts into initTasks
InitTasks(p) ==
    (IF Get(p, "requireCredentials") = True
        /\ ~(Truthy(Get(p, "userId")) /\ Truthy(Get(p, "secretKey")))
     THEN {"credentials"} ELSE {})
    \cup (IF Truthy(Get(p, "loadNpmConfig")) THEN {"config"} ELSE {})

\* the if/else-if that writes a failure value with log.error
Report(err) ==
    IF err.shape = "Error"
    THEN <<IF err.stack # "" THEN err.stack ELSE toString(err)>>
    ELSE IF err.shape = "string" THEN <<err.text>>
    ELSE <<>>

\* _.each(results, function(value, key) { _.extend(program, value) }), the
\* keys of results visited in the order they were inserted
RECURSIVE MergeResults(_, _)
MergeResults(p, res) ==
    IF res = <<>> THEN p
    ELSE MergeResults(Extend(p, Head(res)[2]), Tail(res))

\* setProgramDefaults with program.debug tested for both settings.
\* C15_EnvironmentWrittenAtDispatch fails with it.
setProgramDefaults_DevFromDebug(p, e) ==
    [YOKE_DEBUG |-> IF Truthy(Get(p, "debug")) THEN "1" ELSE e.YOKE_DEBUG,
     AEROBATIC_ENV |-> IF Truthy(Get(p, "debug")) THEN "dev" ELSE e.AEROBATIC_ENV]

\* if (program.debug) process.env.YOKE_DEBUG = '1', and the same for dev
setProgramDefaults(p, e) ==
    [YOKE_DEBUG |-> IF Truthy(Get(p, "debug")) THEN "1" ELSE e.YOKE_DEBUG,
     AEROBATIC_ENV |-> IF Truthy(Get(p, "dev")) THEN "dev" ELSE e.AEROBATIC_ENV]

\* onInitTasks without the process.exit() of its error branch: it reports
\* and goes on to merge and dispatch.  C7_AllOrNothingDispatch fails with it.
onInitTasks_NoExit(p, e, err, res) ==
    [report |-> IF IsErr(err) THEN Report(err) ELSE <<>>, exit |-> FALSE,
     program |-> MergeResults(p, res),
     env |-> setProgramDefaults(MergeResults(p, res), e), dispatch |-> TRUE]

\* the callback commandAction gives async.parallel: on err it reports and
\* calls process.exit, which does not return; else it merges and dispatches
onInitTasks(p, e, err, res) ==
    IF IsErr(err)
    THEN [report |-> Report(err), exit |-> TRUE, program |-> p, env |-> e,
          dispatch |-> FALSE]
    ELSE [report |-> <<>>, exit |-> FALSE, program |-> MergeResults(p, res),
          env |-> setProgramDefaults(MergeResults(p, res), e),
          dispatch |-> TRUE]

\* parallelDone as a join that waits for every task and then passes on the
\* err of the task that finished last.  C4_FailFastJoin fails with it.
parallelDone_WaitForAll(err, count, n, live) ==
    [call |-> live /\ count + 1 >= n, err |-> err, completed |-> count + 1,
     joined |-> ~live]

\* the done function async.parallel gives each task: the first err goes to
\* the callback, which is then dropped; the last success calls it with none
parallelDone(err, count, n, live) ==
    IF IsErr(err)
    THEN [call |-> live, err |-> err, completed |-> count, joined |-> TRUE]
    ELSE [call |-> live /\ count + 1 >= n, err |-> NoErr,
          completed |-> count + 1, joined |-> ~live]

\* what a command implementation may pass as onKill
OnKillValues == {"undefined", "function", "object"}
\* isFunction as a test of truthiness: any onKill that was passed counts.
\* C14_ImmediateCompletionAndFailure fails with it.
isFunction_Truthy(onKill) == onKill # "undefined"

isFunction(onKill) == onKill = "function"

\* what a command implementation may pass as err
CommandErrs ==
    {NoErr, Err("deploy failed", "Error: deploy failed at deploy.js:1"),
     Err("deploy failed", ""), Str("Invalid credentials"), PlainObject, Number}

\* onCommandDone with the 'exit' listener registered before the checks of
\* err and onKill.  C3_KeptAliveUntilExternalExit fails with it.
onCommandDone_ListenFirst(err, onKill) ==
    IF IsErr(err)
    THEN [report |-> Report(err), exit |-> TRUE, listen |-> TRUE]
    ELSE IF ~isFunction(onKill)
    THEN [report |-> <<>>, exit |-> TRUE, listen |-> TRUE]
    ELSE [report |-> <<>>, exit |-> FALSE, listen |-> TRUE]

\* the completion callback commandAction gives the command implementation
onCommandDone(err, onKill) ==
    IF IsErr(err)
    THEN [report |-> Report(err), exit |-> TRUE, listen |-> FALSE]
    ELSE IF ~isFunction(onKill)
    THEN [report |-> <<>>, exit |-> TRUE, listen |-> FALSE]
    ELSE [report |-> <<>>, exit |-> FALSE, listen |-> TRUE]

\* the action of command('*') without its process.exit().
\* C9_UnrecognizedCommand fails with it.
notACommand_NoExit == [report |-> <<"Not a valid command. Type 'yoke -h' for help.">>,
                       exit |-> FALSE]

\* the action of program.command('*')
notACommand == [report |-> <<"Not a valid command. Type 'yoke -h' for help.">>,
                exit |-> TRUE]

----------------------------------------------------------------------------
(* The process *)

Init ==
    /\ cmd \in CommandNames \cup {Unrecognized}
    /\ program \in {ParsedProgram(flags) : flags \in FlagValues}
    /\ pc = "start"
    /\ credTask = "none"
    /\ cfgTask = "none"
    /\ credFile = [kind |-> "unread", json |-> EmptyObj]
    /\ manifest = Unread
    /\ results = <<>>
    /\ completed = 0
    /\ handlerCalls = 0
    /\ handlerErr = NoErr
    /\ cmdCalls = 0
    /\ cmdResult = [err |-> NoErr, onKill |-> "undefined", called |-> FALSE]
    /\ errorLines = <<>>
    /\ infoLines = <<>>
    /\ env = [YOKE_DEBUG |-> Undef, AEROBATIC_ENV |-> Undef]
    /\ envWrites = 0
    /\ exitHandlers = <<>>
    /\ cleanupCalls = 0
    /\ initTasks = {}
    /\ joined = FALSE
    /\ exitVia = "none"
    /\ exitCode = -1

\* the number of listeners h among those registered
Count(handlers, h) == Cardinality({i \in DOMAIN handlers : handlers[i] = h})

\* the process ends and emits 'exit': every listener runs once, in order
Exit(via, code, handlers) ==
    /\ pc' = "exited"
    /\ exitVia' = via
    /\ exitCode' = code
    /\ infoLines' = infoLines \o [i \in 1..Count(handlers, "logExiting") |-> "Exiting"]
    /\ cleanupCalls' = cleanupCalls + Count(handlers, "onKill")

\* an exception nobody catches: node prints it and exits with status 1
Uncaught == Exit("uncaught", 1, exitHandlers)

\* process.exit() with a status that tells a failure from a success.
\* C16_ExitStatusAlwaysZero fails with it.
processExit_FailureStatus(err) == IF IsErr(err) THEN 1 ELSE 0

\* the status of process.exit() as yoke.js calls it, without an argument,
\* after the failure value err or after none
processExit(err) == 0

\* a run of the callback given to async.parallel
RunOnInitTasks(p, err, res) ==
    LET r == onInitTasks(p, env, err, res) IN
    /\ handlerCalls' = handlerCalls + 1
    /\ handlerErr' = err
    /\ errorLines' = errorLines \o r.report
    /\ program' = r.program
    /\ env' = r.env
    /\ envWrites' = envWrites + (IF r.dispatch THEN 1 ELSE 0)
    /\ cmdCalls' = cmdCalls + (IF r.dispatch THEN 1 ELSE 0)
    /\ IF r.exit
       THEN Exit("initFailure", processExit(err), exitHandlers)
       ELSE /\ pc' = (IF r.dispatch THEN "invoking" ELSE pc)
            /\ UNCHANGED <<exitVia, exitCode, infoLines, cleanupCalls>>

\* a task calls the callback async.parallel gave it
TaskCallback(k, o) ==
    LET res == Append(results, <<k, o.value>>)
        d == parallelDone(o.err, completed, Cardinality(initTasks), ~joined)
    IN
    /\ results' = res
    /\ completed' = d.completed
    /\ joined' = d.joined
    /\ IF d.call
       THEN RunOnInitTasks(program, d.err, res)
       ELSE UNCHANGED <<handlerCalls, handlerErr, errorLines, program, env,
                        envWrites, cmdCalls, pc, exitVia, exitCode, infoLines,
                        cleanupCalls>>

\* program.parse runs the action of command('*')
UnrecognizedCommand ==
    /\ pc = "start"
    /\ cmd = Unrecognized
    /\ errorLines' = errorLines \o notACommand.report
    /\ IF notACommand.exit
       THEN Exit("usage", processExit(Str(notACommand.report[1])),
                 exitHandlers)
       ELSE /\ pc' = "idle"
            /\ UNCHANGED <<exitVia, exitCode, infoLines, cleanupCalls>>
    /\ UNCHANGED <<cmd, program, credTask, cfgTask, credFile, manifest, results,
                   completed, handlerCalls, handlerErr, cmdCalls, cmdResult,
                   env, envWrites, exitHandlers, initTasks, joined>>

\* program.parse runs the function commandAction returned; each init task
\* starts with fs.exists; with no task async.parallel calls back at once.
\* Then the 'exit' listener that logs "Exiting" is registered.
commandAction ==
    /\ pc = "start"
    /\ cmd \in CommandNames
    /\ LET p == WithOptions(program, cmd)
           tasks == InitTasks(p)
       IN
       /\ initTasks' = tasks
       /\ credTask' = (IF "credentials" \in tasks THEN "exists" ELSE "none")
       /\ cfgTask' = (IF "config" \in tasks THEN "exists" ELSE "none")
       /\ IF tasks = {}
          THEN RunOnInitTasks(p, NoErr, <<>>)
          ELSE /\ program' = p
               /\ pc' = "init"
               /\ UNCHANGED <<handlerCalls, handlerErr, errorLines, env,
                              envWrites, cmdCalls, exitVia, exitCode,
                              infoLines, cleanupCalls>>
    /\ exitHandlers' = Append(exitHandlers, "logExiting")
    /\ UNCHANGED <<cmd, credFile, manifest, results, completed, cmdResult,
                   joined>>

\* the fs.exists callback of loadCredentials
CredentialsExists ==
    /\ pc = "init"
    /\ credTask = "exists"
    /\ \E f \in CredFiles :
        /\ credFile' = f
        /\ LET o == loadCredentials(f) IN
           IF o.tag = "throw"
           THEN /\ credTask' = "thrown"
                /\ Uncaught
                /\ UNCHANGED <<results, completed, joined, handlerCalls,
                               handlerErr, errorLines, program, env, envWrites,
                               cmdCalls>>
           ELSE /\ credTask' = "done"
                /\ TaskCallback("credentials", o)
    /\ UNCHANGED <<cmd, cfgTask, manifest, cmdResult, exitHandlers, initTasks>>

\* the fs.exists callback of loadAerobaticNpmConfig
ConfigExists ==
    /\ pc = "init"
    /\ cfgTask = "exists"
    /\ \E exists \in BOOLEAN :
        IF ~exists
        THEN /\ manifest' = Absent
             /\ cfgTask' = "done"
             /\ TaskCallback("config", Fail(Str(NoManifest)))
        ELSE /\ manifest' = Present
             /\ cfgTask' = "readFile"
             /\ UNCHANGED <<results, completed, joined, handlerCalls,
                            handlerErr, errorLines, program, env, envWrites,
                            cmdCalls, pc, exitVia, exitCode, infoLines,
                            cleanupCalls>>
    /\ UNCHANGED <<cmd, credTask, credFile, cmdResult, exitHandlers, initTasks>>

\* the fs.readFile callback of loadAerobaticNpmConfig
ConfigReadFile ==
    /\ pc = "init"
    /\ cfgTask = "readFile"
    /\ \E m \in ManifestContents :
        /\ manifest' = m
        /\ LET o == loadAerobaticNpmConfig(program, m) IN
           IF o.tag = "throw"
           THEN /\ cfgTask' = "thrown"
                /\ Uncaught
                /\ UNCHANGED <<results, completed, joined, handlerCalls,
                               handlerErr, errorLines, program, env, envWrites,
                               cmdCalls>>
           ELSE /\ cfgTask' = "done"
                /\ TaskCallback("config", o)
    /\ UNCHANGED <<cmd, credTask, credFile, cmdResult, exitHandlers, initTasks>>

\* the command implementation calls its completion callback
CommandCallback ==
    /\ pc = "invoking"
    /\ \E err \in CommandErrs, onKill \in OnKillValues :
        LET r == onCommandDone(err, onKill)
            handlers == IF r.listen THEN Append(exitHandlers, "onKill")
                        ELSE exitHandlers
        IN
        /\ cmdResult' = [err |-> err, onKill |-> onKill, called |-> TRUE]
        /\ errorLines' = errorLines \o r.report
        /\ exitHandlers' = handlers
        /\ IF r.exit
           THEN Exit(IF IsErr(err) THEN "commandFailure" ELSE "completed",
                     processExit(err), handlers)
           ELSE /\ pc' = "keptAlive"
                /\ UNCHANGED <<exitVia, exitCode, infoLines, cleanupCalls>>
    /\ UNCHANGED <<cmd, program, credTask, cfgTask, credFile, manifest, results,
                   completed, handlerCalls, handlerErr, cmdCalls, env,
                   envWrites, initTasks, joined>>

\* SIGINT arrives.  yoke.js installs no SIGINT listener, so node's default
\* action ends the process at once, without emitting 'exit'.
Interrupt ==
    /\ pc \in {"init", "invoking", "keptAlive"}
    /\ pc' = "exited"
    /\ exitVia' = "signal"
    /\ exitCode' = 130
    /\ UNCHANGED <<cmd, program, credTask, cfgTask, credFile, manifest, results,
                   completed, handlerCalls, handlerErr, cmdCalls, cmdResult,
                   errorLines, infoLines, env, envWrites, exitHandlers,
                   cleanupCalls, initTasks, joined>>

\* the kept-alive command has nothing left to do (its server closed) and
\* the event loop runs empty: node emits 'exit' and ends the process
NaturalExit ==
    /\ pc = "keptAlive"
    /\ Exit("natural", 0, exitHandlers)
    /\ UNCHANGED <<cmd, program, credTask, cfgTask, credFile, manifest, results,
                   completed, handlerCalls, handlerErr, cmdCalls, cmdResult,
                   errorLines, env, envWrites, exitHandlers, initTasks, joined>>

Next ==
    \/ UnrecognizedCommand
    \/ commandAction
    \/ CredentialsExists
    \/ ConfigExists
    \/ ConfigReadFile
    \/ CommandCallback
    \/ Interrupt
    \/ NaturalExit

Spec == Init /\ [][Next]_vars

----------------------------------------------------------------------------
(* Properties *)

Reverse(seq) == [i \in 1..Len(seq) |-> seq[Len(seq) + 1 - i]]

\* the step in which the callback given to async.parallel runs
HandlerRuns == handlerCalls' = handlerCalls + 1

\* the step in which the command implementation is invoked
Dispatches == cmdCalls' = cmdCalls + 1

BothTasks == {"credentials", "config"}

\* C1: for a command with both init tasks whose resolvers both succeed, the
\* Context handed to the command is the one the other completion order of
\* the two resolvers would have given, and it carries the resolved
\* credentials under their keys.
C1_MergeOrderIndependent ==
    [][(Dispatches /\ initTasks = BothTasks) =>
          /\ program' = MergeResults(program, Reverse(results'))
          /\ Get(program', "userId") = Get(credFile'.json, "userId")
          /\ Get(program', "secretKey") = Get(credFile'.json, "secretKey")]_vars

\* the completion callback was given (null, cleanupFn)
KeepAliveRequested ==
    cmdResult.called /\ ~IsErr(cmdResult.err) /\ isFunction(cmdResult.onKill)

\* C2: after a completion callback with (null, cleanupFn), cleanupFn has
\* been invoked exactly once when the process has ended, by an interrupt or
\* by a natural exit, and not at all while the process is kept alive.
C2_CleanupOnceOnExit ==
    KeepAliveRequested =>
        /\ pc = "keptAlive" => cleanupCalls = 0
        /\ pc = "exited" => cleanupCalls = 1

\* C3: a completion callback with no error and a function as keep-alive
\* handle leaves the process alive; the process leaves KeptAlive only by an
\* interrupt signal or a natural exit; and the cleanup function is invoked
\* only on leaving KeptAlive, never on the exit of a failed or immediately
\* completed command.
C3_KeptAliveUntilExternalExit ==
    [][/\ (~cmdResult.called /\ cmdResult'.called /\ ~IsErr(cmdResult'.err)
            /\ isFunction(cmdResult'.onKill)) => pc' = "keptAlive"
       /\ (pc = "keptAlive" /\ pc' # "keptAlive") =>
              (pc' = "exited" /\ exitVia' \in {"signal", "natural"})
       /\ cleanupCalls' # cleanupCalls =>
              (pc = "keptAlive" /\ KeepAliveRequested)
       /\ pc' = "keptAlive" => KeepAliveRequested']_vars

C3_Witness ==
    pc = "exited" /\ exitVia = "natural" /\ cleanupCalls = 1
    /\ KeepAliveRequested

\* what the task named k in results did with its callback
Outcome(k) ==
    IF k = "credentials" THEN loadCredentials(credFile)
    ELSE IF manifest.kind = "absent" THEN Fail(Str(NoManifest))
    ELSE loadAerobaticNpmConfig(program, manifest)

\* the positions in results of the tasks that failed
Failures == {i \in DOMAIN results : IsErr(Outcome(results[i][1]).err)}

FirstFailure == CHOOSE i \in Failures : \A j \in Failures : i <= j

\* C4: the callback given to the task runner runs at most once; when a task
\* has failed it has run exactly once, with the failure of the task that
\* failed first; and on that run nothing is merged into the Context, the
\* command is not invoked, and only that failure is reported.
C4_FailFastJoin ==
    /\ [](/\ handlerCalls <= 1
          /\ Failures # {} =>
                /\ handlerCalls = 1
                /\ handlerErr = Outcome(results[FirstFailure][1]).err
                /\ errorLines = Report(handlerErr)
                /\ cmdCalls = 0)
    /\ [][(HandlerRuns /\ IsErr(handlerErr')) => program' = program]_vars

C4_Witness ==
    /\ handlerCalls = 1
    /\ Len(results) = 2
    /\ Failures = {2}
    /\ pc = "exited"

\* the process was ended by the orchestrator after a failure
FailedInvocation == exitVia \in {"initFailure", "commandFailure"}

\* C5: every invocation that fails, with a failure value of any shape, has
\* reported exactly one error line when the process has ended.
C5_ExactlyOneErrorLine ==
    FailedInvocation => (pc = "exited" /\ Len(errorLines) = 1)

\* C6: a failure value is reported by its shape: an Error with a stack as
\* that stack, a string as it is, and a value of any other shape as some
\* readable line; the process has ended afterwards.
C6_ReportedByShape ==
    exitVia = "commandFailure" =>
        /\ pc = "exited"
        /\ (cmdResult.err.shape = "Error" /\ cmdResult.err.stack # "") =>
              errorLines = <<cmdResult.err.stack>>
        /\ cmdResult.err.shape = "string" => errorLines = <<cmdResult.err.text>>
        /\ cmdResult.err.shape \notin {"Error", "string"} => errorLines # <<>>

\* every key of every task result is in the Context p, with the value one
\* of the results gave it
Merged(p, res) ==
    \A i \in DOMAIN res : \A k \in DOMAIN res[i][2] :
        /\ k \in DOMAIN p
        /\ \E j \in DOMAIN res : k \in DOMAIN res[j][2] /\ p[k] = res[j][2][k]

\* C7: the command implementation is invoked only in the step in which the
\* last declared init task has succeeded and every result has been merged
\* into the Context; once a declared task has failed the Context is left as
\* it was, the environment settings are not written, and the command is
\* never invoked.
C7_AllOrNothingDispatch ==
    /\ [][Dispatches =>
            /\ Failures' = {}
            /\ {results'[i][1] : i \in DOMAIN results'} = initTasks'
            /\ Merged(program', results')]_vars
    /\ [][Failures' # {} => program' = program]_vars
    /\ [](Failures # {} =>
            /\ cmdCalls = 0
            /\ envWrites = 0
            /\ env = [YOKE_DEBUG |-> Undef, AEROBATIC_ENV |-> Undef]
            /\ pc = "exited")

C7_Witness ==
    /\ exitVia = "initFailure"
    /\ Failures = {2}
    /\ DOMAIN results[1][2] # {}
    /\ Truthy(Get(program, "debug"))
    /\ env.YOKE_DEBUG = Undef
    /\ cmdCalls = 0

\* the init tasks of command c on a command line with the flags of p, as
\* the command table has them
DeclaredTasks(c, p) ==
    (IF c # "login" /\ ~("userId" \in DOMAIN p /\ "secretKey" \in DOMAIN p)
     THEN {"credentials"} ELSE {})
    \cup (IF c \in {"serve", "sim", "deploy"} THEN {"config"} ELSE {})

\* C8: the init tasks started for a command are the credentials task iff
\* the command requires credentials and the userId and secretKey flags were
\* not both given, and the project-config task iff the command declares it;
\* with no task the runner succeeds at once with an empty result and the
\* command is dispatched.
C8_InitTaskSet ==
    [][(pc = "start" /\ cmd \in CommandNames) =>
          /\ initTasks' = DeclaredTasks(cmd, program)
          /\ (credTask' = "exists") <=> ("credentials" \in initTasks')
          /\ (cfgTask' = "exists") <=> ("config" \in initTasks')
          /\ IF initTasks' = {}
             THEN /\ handlerCalls' = 1
                  /\ ~IsErr(handlerErr')
                  /\ results' = <<>>
                  /\ Dispatches
                  /\ pc' = "invoking"
             ELSE handlerCalls' = 0 /\ cmdCalls' = 0]_vars

C8_Witness ==
    /\ cmd = "deploy"
    /\ pc = "init"
    /\ initTasks = {"config"}
    /\ credTask = "none"
    /\ cfgTask = "exists"

\* C9: for an unrecognized command name no init task is started, no file
\* is read, no command implementation is invoked, one error line is
\* reported and the process has exited in the same step.
C9_UnrecognizedCommand ==
    (cmd = Unrecognized /\ pc # "start") =>
        /\ pc = "exited"
        /\ exitVia = "usage"
        /\ Len(errorLines) = 1
        /\ initTasks = {}
        /\ credTask = "none" /\ cfgTask = "none"
        /\ credFile.kind = "unread" /\ manifest.kind = "unread"
        /\ handlerCalls = 0
        /\ cmdCalls = 0

C9_Witness == cmd = Unrecognized /\ pc = "exited" /\ errorLines # <<>>

\* the step in which loadAerobaticNpmConfig has parsed a manifest that has
\* the _aerobatic section
ResolvesSection ==
    /\ cfgTask = "readFile"
    /\ manifest'.kind = "object"
    /\ manifest'.hasSection

\* C10: when the manifest has the deployment section, the resolver fails
\* with the missing-appId message iff neither the appId flag nor the section
\* gives an appId; otherwise the resolved config has the flag's appId when
\* the flag was given, and the section's appId when it was not.
C10_AppIdFlagWins ==
    [][ResolvesSection =>
          LET flag == Get(program, "appId")
              stored == Get(manifest'.section, "appId")
              resolved == results'[Len(results')]
              failed == handlerErr' = Str(NoAppId)
          IN
          /\ cfgTask' = "done"
          /\ resolved[1] = "config"
          /\ failed <=> (flag = Undef /\ stored \in {Undef, ""})
          /\ ~failed =>
                /\ ~IsErr(handlerErr')
                /\ Get(resolved[2], "appId") =
                      (IF flag # Undef THEN flag ELSE stored)]_vars

C10_Witness ==
    /\ Get(manifest.section, "appId") = "X"
    /\ \E i \in DOMAIN results :
          results[i][1] = "config" /\ Get(results[i][2], "appId") = "Y"

\* the step in which loadCredentials is done with the file it found
CredentialsResolved == credTask = "exists" /\ credTask' # "exists"

\* C11: the Credential Resolver gives every state of the credentials file
\* exactly one outcome: absent, the no-file failure; not parseable, the
\* parse failure; parsed with userId or secretKey missing or empty, the
\* missing-information failure; otherwise success with the parsed
\* credentials.  The file is read once and never again.
C11_CredentialOutcomes ==
    /\ [][CredentialsResolved =>
            LET f == credFile'
                incomplete == isEmpty(Get(f.json, "userId"))
                                  \/ isEmpty(Get(f.json, "secretKey"))
            IN
            /\ f.kind = "absent" => handlerErr' = Str(NoCredentialsFile)
            /\ f.kind = "unparseable" => handlerErr' = Str(CredentialsNotJson)
            /\ (f.kind \in {"object", "null"} /\ incomplete) =>
                  handlerErr' = Str(CredentialsIncomplete)
            /\ (f.kind \in {"object", "null"} /\ ~incomplete) =>
                  /\ credTask' = "done"
                  /\ results'[Len(results')] = <<"credentials", f.json>>
                  /\ handlerErr' = NoErr]_vars
    /\ [][credFile.kind # "unread" => credFile' = credFile]_vars

\* the step in which loadAerobaticNpmConfig is done with the manifest
ConfigResolved ==
    cfgTask \in {"exists", "readFile"} /\ cfgTask' \notin {"exists", "readFile"}

\* C12: the Project Config Resolver reports the first that holds of: the
\* manifest is absent; it is not parseable; it is parseable and has no
\* deployment section; no appId is given by the flag or the section.  It
\* succeeds only when none of them holds.
C12_ConfigFailureOrder ==
    [][ConfigResolved =>
          LET m == manifest'
              parsed == m.kind \in {"object", "null"}
              noAppId == ~Truthy(Get(program, "appId"))
                            /\ ~Truthy(Get(m.section, "appId"))
              succeeded == /\ cfgTask' = "done"
                           /\ ~IsErr(handlerErr')
                           /\ results'[Len(results')][1] = "config"
          IN
          /\ m.kind = "absent" => handlerErr' = Str(NoManifest)
          /\ m.kind = "unparseable" => handlerErr' = Str(ManifestNotJson)
          /\ (parsed /\ ~m.hasSection) => handlerErr' = Str(NoSection)
          /\ (parsed /\ m.hasSection /\ noAppId) => handlerErr' = Str(NoAppId)
          /\ succeeded => (parsed /\ m.hasSection /\ ~noAppId)
          /\ (parsed /\ m.hasSection /\ ~noAppId) => succeeded]_vars

\* C13: when the command implementation is dispatched, a Context whose
\* credentials were populated, by the resolver or by the two flags, has a
\* non-empty userId and secretKey, and a Context whose project config was
\* populated has a non-empty appId.
C13_ContextInvariantAtDispatch ==
    [][Dispatches =>
          /\ ("credentials" \in initTasks'
                 \/ (Truthy(Get(program, "userId"))
                        /\ Truthy(Get(program, "secretKey")))) =>
                (Truthy(Get(program', "userId"))
                    /\ Truthy(Get(program', "secretKey")))
          /\ "config" \in initTasks' => Truthy(Get(program', "appId"))]_vars

\* the step in which the completion callback of the command is received
CallbackReceived == ~cmdResult.called /\ cmdResult'.called

\* C14: a completion callback with no error and no function as keep-alive
\* handle ends the process at once, with no error line and no cleanup
\* function registered or invoked; a completion callback with an error ends
\* the process after the failure went to the reporter, which writes at most
\* one line, and one line for an Error or a string, also when a keep-alive
\* handle came with the error.
C14_ImmediateCompletionAndFailure ==
    [][CallbackReceived =>
          LET err == cmdResult'.err
              written == Len(errorLines') - Len(errorLines)
          IN
          /\ (~IsErr(err) /\ cmdResult'.onKill # "function") =>
                /\ pc' = "exited" /\ exitVia' = "completed"
                /\ errorLines' = errorLines
                /\ exitHandlers' = exitHandlers
                /\ cleanupCalls' = 0
          /\ IsErr(err) =>
                /\ pc' = "exited" /\ exitVia' = "commandFailure"
                /\ written \in {0, 1}
                /\ err.shape \in {"Error", "string"} => written = 1
                /\ exitHandlers' = exitHandlers
                /\ cleanupCalls' = 0]_vars

C14_Witness ==
    /\ exitVia = "commandFailure"
    /\ cmdResult.onKill = "function"
    /\ Len(errorLines) = 1
    /\ cleanupCalls = 0

\* C15: the two environment settings are written only in the step that
\* dispatches the command, once, from the Context as merged: YOKE_DEBUG is
\* set iff debug is set in it and AEROBATIC_ENV iff dev is; a setting that
\* was made is never changed afterwards.
C15_EnvironmentWrittenAtDispatch ==
    /\ [](envWrites <= 1 /\ envWrites = cmdCalls)
    /\ [][env' # env => Dispatches]_vars
    /\ [][Dispatches =>
            /\ (env'.YOKE_DEBUG = "1") <=> Truthy(Get(program', "debug"))
            /\ (env'.AEROBATIC_ENV = "dev") <=> Truthy(Get(program', "dev"))
            /\ env'.YOKE_DEBUG \in {Undef, "1"}
            /\ env'.AEROBATIC_ENV \in {Undef, "dev"}]_vars
    /\ [][/\ env.YOKE_DEBUG # Undef => env'.YOKE_DEBUG = env.YOKE_DEBUG
          /\ env.AEROBATIC_ENV # Undef =>
                env'.AEROBATIC_ENV = env.AEROBATIC_ENV]_vars

C15_Witness ==
    /\ cmdCalls = 1
    /\ Len(results) = 2
    /\ env.YOKE_DEBUG = "1"
    /\ env.AEROBATIC_ENV = Undef

\* C16: every exit the orchestrator starts, after an init failure, after a
\* command failure, after immediate completion and for an unrecognized
\* command, has status 0.
C16_ExitStatusAlwaysZero ==
    exitVia \in {"initFailure", "commandFailure", "completed", "usage"} =>
        (pc = "exited" /\ exitCode = 0)

C16_Witness ==
    exitVia = "initFailure" /\ errorLines # <<>> /\ exitCode = 0

\* C17: when the Project Config Resolver succeeds, the resolved config has
\* the manifest's version as appVersion and the manifest's scripts as
\* npmScripts, the empty map when the manifest has none, whatever the
\* section held under these two keys.
C17_NpmAttributesOverwrite ==
    [][(ResolvesSection /\ cfgTask' = "done" /\ ~IsErr(handlerErr')) =>
          LET config == results'[Len(results')][2] IN
          /\ Get(config, "appVersion") = manifest'.version
          /\ Get(config, "npmScripts") =
                (IF manifest'.scripts = Undef THEN "{}"
                 ELSE manifest'.scripts)]_vars

C17_Witness ==
    /\ Get(manifest.section, "appVersion") = "0.0.1"
    /\ manifest.version = "1.0.0"
    /\ manifest.scripts = Undef
    /\ \E i \in DOMAIN results :
          /\ results[i][1] = "config"
          /\ Get(results[i][2], "appVersion") = "1.0.0"
          /\ Get(results[i][2], "npmScripts") = "{}"

\* how often the task k has called the callback async.parallel gave it
Callbacks(k) == Cardinality({i \in DOMAIN results : results[i][1] = k})

\* C18: a resolver that has looked at its file has called its callback
\* exactly once, whatever the file holds, and an invocation of a recognized
\* command that has ended other than by a signal has dispatched the command
\* or has ended with the failure reported.
C18_CallbackExactlyOnce ==
    /\ Callbacks("credentials") <= 1
    /\ Callbacks("config") <= 1
    /\ credFile.kind # "unread" => Callbacks("credentials") = 1
    /\ manifest.kind \notin {"unread", "present"} => Callbacks("config") = 1
    /\ (cmd \in CommandNames /\ pc = "exited" /\ exitVia # "signal") =>
          \/ cmdCalls = 1
          \/ exitVia = "initFailure" /\ Len(errorLines) = 1

\* C19: when the userId and secretKey flags are both given the credentials
\* file is never read, and the merge of the resolver results leaves every
\* value a flag gave, other than appId, as it was.
C19_FlagsSurviveMerge ==
    [][Dispatches =>
          /\ (Truthy(Get(program, "userId"))
                 /\ Truthy(Get(program, "secretKey"))) =>
                credFile'.kind = "unread"
          /\ \A k \in DOMAIN program \ {"appId"} :
                Get(program', k) = program[k]]_vars

====
